---- MODULE Spec2Model ----
(***************************************************************************)
(* Model of snowmerak/ticketing: the admission queue (QueueService,        *)
(* QueueRepository), the inventory (EventRepository, SeatRepository,       *)
(* TicketRepository) and the coordinator (TicketingService) over one       *)
(* shared Redis store.  Every request is a flow run by a worker; a flow    *)
(* advances by one store call per step, so flows interleave between store  *)
(* calls exactly as concurrent HTTP requests do.  Lua scripts are single   *)
(* steps.                                                                  *)
(***************************************************************************)
EXTENDS Integers, Sequences, FiniteSets, TLC

(* ---------- bounds of the model ---------- *)
MaxQueueFlows == 5
MaxFlows == 4
MaxTime == 2
MaxTickets == 2
MaxExpiries == 1
MaxTotal == 2
MaxSeatList == 2

(* ---------- universe ---------- *)
Procs == {"w1", "w2"}
Users == {"u1", "u2", "u3"}
Seats == {"A1"}
Events == {"E", "F"}
NoSeat == "noseat"
NoUser == "nouser"
NoKey == -1
NoExpiry == -1

\* the session token a client presents; "k0" is a token no join ever binds
Sessions == {"k0", "k1", "k2", "k3"}
SessionOf(u) == CASE u = "u1" -> "k1" [] u = "u2" -> "k2" [] OTHER -> "k3"

\* durations in units of 15 minutes
ActiveTTL == 1
ReserveTTL == 1

VARIABLES
  queue,      \* queue:{eventId}            list of userId
  entries,    \* queue_entry:{eventId}:{u}  JSON QueueEntry, status "absent" when the key is missing
  sessions,   \* session:{sid}.queue_entry  user whose entry key is bound, NoUser when missing
  event,      \* event:{eventId}            JSON Event
  counter,    \* event:{eventId}:available_tickets   NoKey when the key is missing
  seats,      \* seat:{seatId}.status
  availIdx,   \* available-seats index set
  tickets,    \* ticket:{ticketId}          sequence, ticketId = index
  locks,      \* lock:{resource} keys present in the store
  now,        \* wall clock
  pc,         \* position of each worker in its flow
  req,        \* request a worker is serving
  loc,        \* locals of the flow
  res,        \* result of the flow a worker finished last
  nflows,     \* flows started so far
  nexpired,   \* lock keys evicted by TTL so far
  acked,      \* users whose join has returned an entry
  arrived,    \* users that have sent a join
  everActive, \* users whose entry has been written with status active
  joinedAfter \* per user: the users acknowledged before the join that created its entry began

queueVars == <<queue, entries, sessions>>
invVars == <<event, counter, seats, availIdx, tickets>>
storeVars == <<queue, entries, sessions, event, counter, seats, availIdx, tickets>>
procVars == <<pc, req, loc, res>>
ghostVars == <<acked, arrived, everActive, joinedAfter>>
vars == <<queue, entries, sessions, event, counter, seats, availIdx, tickets, locks, now,
          pc, req, loc, res, nflows, nexpired, acked, arrived, everActive, joinedAfter>>

(* ---------- domain ---------- *)
NoEntry == [status |-> "absent", position |-> 0, session |-> "none", expiresAt |-> NoExpiry]

\* QueueEntry.IsActive
EntryIsActive(e) == e.status = "active"

\* an expiry test that always takes the nil branch
IsExpiredNever(x, t) == FALSE

\* QueueEntry.IsExpired / Ticket.IsExpired: time.Now().After(*ExpiresAt), false when nil
IsExpired(x, t) == IF x.expiresAt = NoExpiry THEN FALSE ELSE t > x.expiresAt

\* Event.IsActive
EventIsActive(ev) == ev.status = "active"

\* Event.IsSoldOut
IsSoldOut(ev) == ev.status = "sold_out" \/ ev.avail <= 0

\* a CanPurchase that does not look at the end time
CanPurchaseNoDeadline(ev, t) == EventIsActive(ev) /\ ~IsSoldOut(ev)

\* Event.CanPurchase
CanPurchase(ev, t) == EventIsActive(ev) /\ ~IsSoldOut(ev) /\ t < ev.endTime

NoReq == [op |-> "none", ev |-> "E", user |-> NoUser, session |-> "none", seat |-> NoSeat, ticket |-> 0,
          ids |-> <<>>]
NoLock == [kind |-> "none", ev |-> "E", seat |-> NoSeat]
NoLoc == [len |-> 0, user |-> NoUser, status |-> "none", seat |-> NoSeat, avail |-> 0,
          ticket |-> 0, err |-> "none", before |-> {}, held |-> NoLock, todo |-> {}, at |-> 0,
          evicted |-> FALSE]

(* ---------- lock (pkg/client/redis/lock.go) ---------- *)
\* Lock.Acquire: SET lock:key "1" NX EX ttl
AcquireOk(key) == key \notin locks
\* Lock.Release: GET then DEL inside one script; every holder writes the same value "1"
Release(ls, key) == ls \ {key}

\* a flow returns: the deferred Release runs when a lock was acquired
Return(p, result) ==
  /\ pc' = [pc EXCEPT ![p] = "idle"]
  /\ res' = [res EXCEPT ![p] = result]
  /\ loc' = [loc EXCEPT ![p] = NoLoc]
  /\ req' = [req EXCEPT ![p] = NoReq]

Goto(p, label) == pc' = [pc EXCEPT ![p] = label]

\* a request is served by the first free worker (workers are interchangeable)
CanStart(p) ==
  /\ pc[p] = "idle"
  /\ p = "w2" => pc["w1"] # "idle"

\* a lock key reaches its TTL while its holder is still running
LockExpire ==
  /\ nexpired < MaxExpiries
  /\ \E k \in locks :
       /\ \E p \in Procs : pc[p] # "idle" /\ loc[p].held = k
       /\ locks' = locks \ {k}
       \* the holder is not told: evicted is a note for the properties, no flow reads it
       /\ loc' = [p \in Procs |-> IF pc[p] # "idle" /\ loc[p].held = k
                                   THEN [loc[p] EXCEPT !.evicted = TRUE] ELSE loc[p]]
  /\ nexpired' = nexpired + 1
  /\ UNCHANGED <<storeVars, now, pc, req, res, nflows, ghostVars>>

(* ---------- QueueService.JoinQueue / QueueRepository.Join ---------- *)
JoinLockKey(ev) == [kind |-> "queue_join", ev |-> ev, seat |-> NoSeat]

\* users are named in the order of their first join (they are interchangeable)
NextArrival(u) ==
  \/ u \in arrived
  \/ u = "u1"
  \/ u = "u2" /\ "u1" \in arrived
  \/ u = "u3" /\ "u2" \in arrived

StartJoin(p) ==
  /\ CanStart(p)
  /\ nflows < MaxQueueFlows
  /\ \E u \in Users :
       /\ NextArrival(u)
       /\ req' = [req EXCEPT ![p] = [NoReq EXCEPT !.op = "join", !.user = u, !.session = SessionOf(u)]]
       /\ arrived' = arrived \cup {u}
  /\ loc' = [loc EXCEPT ![p] = [NoLoc EXCEPT !.before = acked]]
  /\ res' = [res EXCEPT ![p] = "running"]
  /\ Goto(p, "j_event")
  /\ nflows' = nflows + 1
  /\ UNCHANGED <<storeVars, locks, now, nexpired, acked, everActive, joinedAfter>>

\* JoinQueue: eventRepo.GetByID, event.CanPurchase
JoinEvent(p) ==
  /\ pc[p] = "j_event"
  /\ IF CanPurchase(event, now)
       THEN Goto(p, "j_lock") /\ UNCHANGED <<req, loc, res>>
       ELSE Return(p, "EventUnavailable")
  /\ UNCHANGED <<storeVars, locks, now, nflows, nexpired, ghostVars>>

\* JoinQueue: lock.Acquire(queue_join:{eventId}, 5s)
JoinLock(p) ==
  /\ pc[p] = "j_lock"
  /\ IF AcquireOk(JoinLockKey(req[p].ev))
       THEN /\ locks' = locks \cup {JoinLockKey(req[p].ev)}
            /\ loc' = [loc EXCEPT ![p].held = JoinLockKey(req[p].ev)]
            /\ Goto(p, "j_check")
            /\ UNCHANGED <<req, res>>
       ELSE /\ Return(p, "LockBusy")
            /\ UNCHANGED locks
  /\ UNCHANGED <<storeVars, now, nflows, nexpired, ghostVars>>

\* Join: GetPosition(eventID, userID); an existing entry is returned as is
JoinCheck(p) ==
  /\ pc[p] = "j_check"
  /\ IF entries[req[p].user].status # "absent"
       THEN /\ loc' = [loc EXCEPT ![p].err = "existing"]
            /\ Goto(p, "j_release")
       ELSE /\ Goto(p, "j_llen")
            /\ UNCHANGED loc
  /\ UNCHANGED <<storeVars, locks, now, req, res, nflows, nexpired, ghostVars>>

\* Join: LLEN queue:{eventId}
JoinLLen(p) ==
  /\ pc[p] = "j_llen"
  /\ loc' = [loc EXCEPT ![p].len = Len(queue)]
  /\ Goto(p, "j_rpush")
  /\ UNCHANGED <<storeVars, locks, now, req, res, nflows, nexpired, ghostVars>>

\* the entry Join builds from the length it read
NewEntry(len, sid, t) ==
  IF len = 0
    THEN [status |-> "active", position |-> len + 1, session |-> sid, expiresAt |-> t + ActiveTTL]
    ELSE [status |-> "waiting", position |-> len + 1, session |-> sid, expiresAt |-> NoExpiry]

\* Join: RPUSH queue:{eventId} userId
JoinRPush(p) ==
  /\ pc[p] = "j_rpush"
  /\ queue' = Append(queue, req[p].user)
  /\ Goto(p, "j_set")
  /\ UNCHANGED <<entries, sessions, invVars, locks, now, req, loc, res, nflows, nexpired, ghostVars>>

\* Join: SET queue_entry:{eventId}:{userId}
JoinSet(p) ==
  /\ pc[p] = "j_set"
  /\ entries' = [entries EXCEPT ![req[p].user] = NewEntry(loc[p].len, req[p].session, now)]
  /\ joinedAfter' = [joinedAfter EXCEPT ![req[p].user] = loc[p].before]
  /\ everActive' = IF loc[p].len = 0 THEN everActive \cup {req[p].user} ELSE everActive
  /\ Goto(p, "j_hset")
  /\ UNCHANGED <<queue, sessions, invVars, locks, now, req, loc, res, nflows, nexpired, acked, arrived>>

\* Join: HSET session:{sessionId} queue_entry entryKey
JoinHSet(p) ==
  /\ pc[p] = "j_hset"
  /\ sessions' = [sessions EXCEPT ![req[p].session] = req[p].user]
  /\ Goto(p, "j_release")
  /\ UNCHANGED <<queue, entries, invVars, locks, now, req, loc, res, nflows, nexpired, ghostVars>>

\* JoinQueue: deferred lock.Release, return entry
JoinRelease(p) ==
  /\ pc[p] = "j_release"
  /\ locks' = Release(locks, JoinLockKey(req[p].ev))
  /\ acked' = acked \cup {req[p].user}
  /\ Return(p, IF loc[p].err = "existing" THEN "existing" ELSE "joined")
  /\ UNCHANGED <<storeVars, now, nflows, nexpired, arrived, everActive, joinedAfter>>

(* ---------- QueueService.ProcessQueue / QueueRepository.ActivateNext ---------- *)
ProcessLockKey(ev) == [kind |-> "queue_process", ev |-> ev, seat |-> NoSeat]

StartProcess(p) ==
  /\ CanStart(p)
  /\ nflows < MaxQueueFlows
  /\ req' = [req EXCEPT ![p] = [NoReq EXCEPT !.op = "process"]]
  /\ loc' = [loc EXCEPT ![p] = NoLoc]
  /\ res' = [res EXCEPT ![p] = "running"]
  /\ Goto(p, "q_lock")
  /\ nflows' = nflows + 1
  /\ UNCHANGED <<storeVars, locks, now, nexpired, ghostVars>>

\* ProcessQueue: lock.Acquire(queue_process:{eventId}, 5s)
ProcessLock(p) ==
  /\ pc[p] = "q_lock"
  /\ IF AcquireOk(ProcessLockKey(req[p].ev))
       THEN /\ locks' = locks \cup {ProcessLockKey(req[p].ev)}
            /\ loc' = [loc EXCEPT ![p].held = ProcessLockKey(req[p].ev)]
            /\ Goto(p, "q_lpop")
            /\ UNCHANGED <<req, res>>
       ELSE /\ Return(p, "LockBusy")
            /\ UNCHANGED locks
  /\ UNCHANGED <<storeVars, now, nflows, nexpired, ghostVars>>

\* an LPOP whose nil reply on an empty list is not taken as an error
ProcessLPopQuiet(p) ==
  /\ pc[p] = "q_lpop"
  /\ IF queue = <<>>
       THEN /\ Goto(p, "q_release")
            /\ UNCHANGED <<queue, loc>>
       ELSE /\ queue' = Tail(queue)
            /\ Goto(p, "q_lindex")
            /\ UNCHANGED loc
  /\ UNCHANGED <<entries, sessions, invVars, locks, now, req, res, nflows, nexpired, ghostVars>>

\* ActivateNext: LPOP queue:{eventId}; redis.Nil on an empty list is an error
ProcessLPop(p) ==
  /\ pc[p] = "q_lpop"
  /\ IF queue = <<>>
       THEN /\ loc' = [loc EXCEPT ![p].err = "QueueEmpty"]
            /\ Goto(p, "q_release")
            /\ UNCHANGED queue
       ELSE /\ queue' = Tail(queue)
            /\ Goto(p, "q_lindex")
            /\ UNCHANGED loc
  /\ UNCHANGED <<entries, sessions, invVars, locks, now, req, res, nflows, nexpired, ghostVars>>

\* ActivateNext: LINDEX queue:{eventId} 0
ProcessLIndex(p) ==
  /\ pc[p] = "q_lindex"
  /\ IF queue = <<>>
       THEN /\ loc' = [loc EXCEPT ![p].err = "QueueEmpty"]
            /\ Goto(p, "q_release")
       ELSE /\ loc' = [loc EXCEPT ![p].user = Head(queue)]
            /\ Goto(p, "q_get")
  /\ UNCHANGED <<storeVars, locks, now, req, res, nflows, nexpired, ghostVars>>

\* ActivateNext: GetPosition of the new head
ProcessGet(p) ==
  /\ pc[p] = "q_get"
  /\ IF entries[loc[p].user].status = "absent"
       THEN /\ loc' = [loc EXCEPT ![p].err = "NotFound"]
            /\ Goto(p, "q_release")
       ELSE /\ loc' = [loc EXCEPT ![p].len = entries[loc[p].user].position,
                                  ![p].status = entries[loc[p].user].session]
            /\ Goto(p, "q_set")
  /\ UNCHANGED <<storeVars, locks, now, req, res, nflows, nexpired, ghostVars>>

\* ActivateNext: entry.Status = active, ExpiresAt = now + 15m, SET queue_entry
ProcessSet(p) ==
  /\ pc[p] = "q_set"
  /\ entries' = [entries EXCEPT ![loc[p].user] =
       [status |-> "active", position |-> loc[p].len, session |-> loc[p].status,
        expiresAt |-> now + ActiveTTL]]
  /\ everActive' = everActive \cup {loc[p].user}
  /\ Goto(p, "q_release")
  /\ UNCHANGED <<queue, sessions, invVars, locks, now, req, loc, res, nflows, nexpired, acked, arrived, joinedAfter>>

\* a processNext that releases its lock on the success path only
ProcessReleaseOnSuccess(p) ==
  /\ pc[p] = "q_release"
  /\ locks' = IF loc[p].err = "none" THEN Release(locks, ProcessLockKey(req[p].ev)) ELSE locks
  /\ Return(p, IF loc[p].err = "none" THEN "promoted" ELSE loc[p].err)
  /\ UNCHANGED <<storeVars, now, nflows, nexpired, ghostVars>>

\* ProcessQueue: deferred lock.Release, return
ProcessRelease(p) ==
  /\ pc[p] = "q_release"
  /\ locks' = Release(locks, ProcessLockKey(req[p].ev))
  /\ Return(p, IF loc[p].err = "none" THEN "promoted" ELSE loc[p].err)
  /\ UNCHANGED <<storeVars, now, nflows, nexpired, ghostVars>>


(* ---------- inventory scripts ---------- *)
\* EventRepository.DecrementAvailableTickets, the Lua script: the value returned and the counter left
DecrementScript(c, n) ==
  IF c = NoKey THEN [ret |-> -1, counter |-> c]
  ELSE IF c < n THEN [ret |-> -2, counter |-> c]
  ELSE [ret |-> c - n, counter |-> c - n]

\* EventRepository.IncrementAvailableTickets, the Lua script
IncrementScript(c, n) ==
  IF c = NoKey THEN [ret |-> -1, counter |-> c]
  ELSE [ret |-> c + n, counter |-> c + n]

\* the Go side of both: -1 and -2 are errors, otherwise the event record is rewritten
EventAfter(ev, r) == IF r.ret < 0 THEN ev ELSE [ev EXCEPT !.avail = r.ret]

\* a script that marks the listed seats reserved without looking at their status
ReserveSeatsUnchecked(st, idx, ids) ==
  [ok |-> TRUE,
   seats |-> [s \in DOMAIN st |-> IF \E i \in 1..Len(ids) : ids[i] = s THEN "reserved" ELSE st[s]],
   idx |-> idx \ {ids[i] : i \in 1..Len(ids)}]

\* SeatRepository.ReserveSeats, the Lua script: every listed seat must exist and be available
ReserveSeats(st, idx, ids) ==
  IF \A i \in 1..Len(ids) : ids[i] \in DOMAIN st /\ st[ids[i]] = "available"
    THEN [ok |-> TRUE,
          seats |-> [s \in DOMAIN st |-> IF \E i \in 1..Len(ids) : ids[i] = s THEN "reserved" ELSE st[s]],
          idx |-> idx \ {ids[i] : i \in 1..Len(ids)}]
    ELSE [ok |-> FALSE, seats |-> st, idx |-> idx]

\* SeatRepository.ReleaseSeats, the Lua script: every listed seat must exist and be reserved
ReleaseSeats(st, idx, ids) ==
  IF \A i \in 1..Len(ids) : ids[i] \in DOMAIN st /\ st[ids[i]] = "reserved"
    THEN [ok |-> TRUE,
          seats |-> [s \in DOMAIN st |-> IF \E i \in 1..Len(ids) : ids[i] = s THEN "available" ELSE st[s]],
          idx |-> idx \cup {ids[i] : i \in 1..Len(ids)}]
    ELSE [ok |-> FALSE, seats |-> st, idx |-> idx]

\* SeatRepository.ReserveSeats of pkg/repository/redis/seat.go, the Lua script:
\* each seat is checked and written inside the one loop, an error reply ends it
RECURSIVE ReserveSeatsGoRedis(_, _, _)
ReserveSeatsGoRedis(st, idx, ids) ==
  IF ids = <<>> THEN [ok |-> TRUE, seats |-> st, idx |-> idx]
  ELSE IF Head(ids) \notin DOMAIN st \/ st[Head(ids)] # "available"
    THEN [ok |-> FALSE, seats |-> st, idx |-> idx]
    ELSE ReserveSeatsGoRedis([st EXCEPT ![Head(ids)] = "reserved"], idx \ {Head(ids)}, Tail(ids))

\* SeatRepository.ReleaseSeats of pkg/repository/redis/seat.go, the Lua script
RECURSIVE ReleaseSeatsGoRedis(_, _, _)
ReleaseSeatsGoRedis(st, idx, ids) ==
  IF ids = <<>> THEN [ok |-> TRUE, seats |-> st, idx |-> idx]
  ELSE IF Head(ids) \notin DOMAIN st \/ st[Head(ids)] # "reserved"
    THEN [ok |-> FALSE, seats |-> st, idx |-> idx]
    ELSE ReleaseSeatsGoRedis([st EXCEPT ![Head(ids)] = "available"], idx \cup {Head(ids)}, Tail(ids))

(* ---------- TicketingService.PurchaseTicket ---------- *)
PurchaseLockKey(ev, seat) == [kind |-> "ticket_purchase", ev |-> ev, seat |-> seat]

StartPurchase(p) ==
  /\ CanStart(p)
  /\ nflows < MaxFlows
  /\ Len(tickets) + Cardinality({q \in Procs : req[q].op = "purchase"}) < MaxTickets
  /\ \E u \in Users, sid \in Sessions, s \in Seats \cup {NoSeat}, e \in Events :
       req' = [req EXCEPT ![p] = [NoReq EXCEPT !.op = "purchase", !.ev = e, !.user = u,
                                                 !.session = sid, !.seat = s]]
  /\ loc' = [loc EXCEPT ![p] = NoLoc]
  /\ res' = [res EXCEPT ![p] = "running"]
  /\ Goto(p, "p_session")
  /\ nflows' = nflows + 1
  /\ UNCHANGED <<storeVars, locks, now, nexpired, ghostVars>>

\* a session check that does not look at the entry's expiresAt
SessionValidNoExpiry(sid, e, u, t) ==
  /\ sessions[sid] # NoUser
  /\ EntryIsActive(entries[sessions[sid]])
  /\ e = "E"
  /\ sessions[sid] = u

\* the session check of PurchaseTicket: GetBySessionID, IsActive, IsExpired, identity match
SessionValid(sid, e, u, t) ==
  /\ sessions[sid] # NoUser
  /\ EntryIsActive(entries[sessions[sid]])
  /\ ~IsExpired(entries[sessions[sid]], t)
  /\ e = "E"
  /\ sessions[sid] = u

PurchaseSession(p) ==
  /\ pc[p] = "p_session"
  /\ IF SessionValid(req[p].session, req[p].ev, req[p].user, now)
       THEN Goto(p, "p_event") /\ UNCHANGED <<req, loc, res>>
       ELSE Return(p, "SessionInvalid")
  /\ UNCHANGED <<storeVars, locks, now, nflows, nexpired, ghostVars>>

\* PurchaseTicket: eventRepo.GetByID, event.CanPurchase
PurchaseEvent(p) ==
  /\ pc[p] = "p_event"
  /\ IF CanPurchase(event, now)
       THEN /\ loc' = [loc EXCEPT ![p].avail = event.avail]
            /\ Goto(p, "p_lock")
            /\ UNCHANGED <<req, res>>
       ELSE Return(p, "EventUnavailable")
  /\ UNCHANGED <<storeVars, locks, now, nflows, nexpired, ghostVars>>

\* PurchaseTicket: lock.Acquire(ticket_purchase:{eventId}[:{seatId}], 10s), then the branch on IsSeatedEvent
PurchaseLock(p) ==
  /\ pc[p] = "p_lock"
  /\ LET k == PurchaseLockKey(req[p].ev, req[p].seat) IN
     IF AcquireOk(k)
       THEN /\ locks' = locks \cup {k}
            /\ IF event.seated /\ req[p].seat = NoSeat
                 THEN /\ loc' = [loc EXCEPT ![p].held = k, ![p].err = "SeatRequired"]
                      /\ Goto(p, "p_release")
                 ELSE /\ loc' = [loc EXCEPT ![p].held = k]
                      /\ Goto(p, IF event.seated THEN "p_seat" ELSE "p_standing")
            /\ UNCHANGED <<req, res>>
       ELSE /\ Return(p, "LockBusy")
            /\ UNCHANGED locks
  /\ UNCHANGED <<storeVars, now, nflows, nexpired, ghostVars>>

\* purchaseSeatedTicket: seatRepo.GetByID, seat.IsAvailable
PurchaseSeat(p) ==
  /\ pc[p] = "p_seat"
  /\ IF seats[req[p].seat] = "available"
       THEN Goto(p, "p_reserve") /\ UNCHANGED loc
       ELSE loc' = [loc EXCEPT ![p].err = "SeatUnavailable"] /\ Goto(p, "p_release")
  /\ UNCHANGED <<storeVars, locks, now, req, res, nflows, nexpired, ghostVars>>

\* purchaseSeatedTicket: seatRepo.ReserveSeats([seatID])
PurchaseReserve(p) ==
  /\ pc[p] = "p_reserve"
  /\ LET r == ReserveSeats(seats, availIdx, <<req[p].seat>>) IN
       /\ seats' = r.seats
       /\ availIdx' = r.idx
       /\ IF r.ok
            THEN Goto(p, "p_create") /\ UNCHANGED loc
            ELSE loc' = [loc EXCEPT ![p].err = "SeatUnavailable"] /\ Goto(p, "p_release")
  /\ UNCHANGED <<queueVars, event, counter, tickets, locks, now, req, res, nflows, nexpired, ghostVars>>

\* purchaseSeatedTicket / purchaseStandingTicket: ticketRepo.Create of the Reserved ticket
PurchaseCreate(p) ==
  /\ pc[p] = "p_create"
  /\ tickets' = Append(tickets, [seat |-> IF event.seated THEN req[p].seat ELSE NoSeat,
                                 user |-> req[p].user, status |-> "reserved",
                                 expiresAt |-> now + ReserveTTL])
  /\ loc' = [loc EXCEPT ![p].ticket = Len(tickets) + 1]
  /\ Goto(p, IF event.seated THEN "p_decr" ELSE "p_release")
  /\ UNCHANGED <<queueVars, event, counter, seats, availIdx, locks, now, req, res, nflows, nexpired, ghostVars>>

\* ticketRepo.Create returns an error: the store failed before the SET of the
\* ticket key, or after it on one of the index writes (the ticket is written)
PurchaseCreateFails(p) ==
  /\ pc[p] = "p_create"
  /\ \E written \in BOOLEAN :
       tickets' = IF written
                    THEN Append(tickets, [seat |-> IF event.seated THEN req[p].seat ELSE NoSeat,
                                          user |-> req[p].user, status |-> "reserved",
                                          expiresAt |-> now + ReserveTTL])
                    ELSE tickets
  /\ loc' = [loc EXCEPT ![p].err = "CreateFailed"]
  /\ Goto(p, "p_undo")
  /\ UNCHANGED <<queueVars, event, counter, seats, availIdx, locks, now, req, res, nflows, nexpired, ghostVars>>

\* the compensation after a failed Create: seatRepo.ReleaseSeats([seatID]) for a
\* seated purchase, eventRepo.IncrementAvailableTickets for a standing one
PurchaseUndo(p) ==
  /\ pc[p] = "p_undo"
  /\ IF event.seated
       THEN LET r == ReleaseSeats(seats, availIdx, <<req[p].seat>>) IN
              seats' = r.seats /\ availIdx' = r.idx /\ UNCHANGED <<event, counter>>
       ELSE LET r == IncrementScript(counter, 1) IN
              counter' = r.counter /\ event' = EventAfter(event, r) /\ UNCHANGED <<seats, availIdx>>
  /\ Goto(p, "p_release")
  /\ UNCHANGED <<queueVars, tickets, locks, now, req, loc, res, nflows, nexpired, ghostVars>>

\* the compensating call fails in the store as well: its error is only logged
PurchaseUndoFails(p) ==
  /\ pc[p] = "p_undo"
  /\ Goto(p, "p_release")
  /\ UNCHANGED <<storeVars, locks, now, req, loc, res, nflows, nexpired, ghostVars>>

\* purchaseSeatedTicket: eventRepo.DecrementAvailableTickets, its error is only logged
PurchaseDecrement(p) ==
  /\ pc[p] = "p_decr"
  /\ LET r == DecrementScript(counter, 1) IN
       /\ counter' = r.counter
       /\ event' = EventAfter(event, r)
  /\ Goto(p, "p_release")
  /\ UNCHANGED <<queueVars, seats, availIdx, tickets, locks, now, req, loc, res, nflows, nexpired, ghostVars>>

\* purchaseStandingTicket: event.AvailableTickets <= 0 on the event read before the lock
PurchaseStanding(p) ==
  /\ pc[p] = "p_standing"
  /\ IF loc[p].avail <= 0
       THEN loc' = [loc EXCEPT ![p].err = "InsufficientInventory"] /\ Goto(p, "p_release")
       ELSE Goto(p, "p_sdecr") /\ UNCHANGED loc
  /\ UNCHANGED <<storeVars, locks, now, req, res, nflows, nexpired, ghostVars>>

\* purchaseStandingTicket: eventRepo.DecrementAvailableTickets, its error fails the purchase
PurchaseStandingDecrement(p) ==
  /\ pc[p] = "p_sdecr"
  /\ LET r == DecrementScript(counter, 1) IN
       /\ counter' = r.counter
       /\ event' = EventAfter(event, r)
       /\ IF r.ret < 0
            THEN /\ loc' = [loc EXCEPT ![p].err = IF r.ret = -1 THEN "NotFound" ELSE "InsufficientInventory"]
                 /\ Goto(p, "p_release")
            ELSE Goto(p, "p_create") /\ UNCHANGED loc
  /\ UNCHANGED <<queueVars, seats, availIdx, tickets, locks, now, req, res, nflows, nexpired, ghostVars>>

\* PurchaseTicket: deferred lock.Release, return the ticket or the error
PurchaseRelease(p) ==
  /\ pc[p] = "p_release"
  /\ locks' = Release(locks, PurchaseLockKey(req[p].ev, req[p].seat))
  /\ Return(p, IF loc[p].err = "none" THEN "Reserved" ELSE loc[p].err)
  /\ UNCHANGED <<storeVars, now, nflows, nexpired, ghostVars>>

(* ---------- TicketingService.ConfirmTicket ---------- *)
\* TicketRepository.UpdateStatus: GET ticket, set Status, SET ticket (no other field changes)
UpdateStatus(ts, id, status) == [ts EXCEPT ![id].status = status]

StartConfirm(p) ==
  /\ CanStart(p)
  /\ nflows < MaxFlows
  /\ \E t \in 1..Len(tickets) :
       req' = [req EXCEPT ![p] = [NoReq EXCEPT !.op = "confirm", !.ticket = t]]
  /\ loc' = [loc EXCEPT ![p] = NoLoc]
  /\ res' = [res EXCEPT ![p] = "running"]
  /\ Goto(p, "c_get")
  /\ nflows' = nflows + 1
  /\ UNCHANGED <<storeVars, locks, now, nexpired, ghostVars>>

\* ConfirmTicket: ticketRepo.GetByID, IsReserved, IsExpired
ConfirmGet(p) ==
  /\ pc[p] = "c_get"
  /\ LET t == tickets[req[p].ticket] IN
     IF t.status # "reserved" THEN Return(p, "TicketNotReserved")
     ELSE IF IsExpired(t, now) THEN Return(p, "TicketExpired")
     ELSE /\ loc' = [loc EXCEPT ![p].seat = t.seat]
          /\ Goto(p, "c_upd")
          /\ UNCHANGED <<req, res>>
  /\ UNCHANGED <<storeVars, locks, now, nflows, nexpired, ghostVars>>

\* a confirm that also takes one ticket off the event's availableTickets
ConfirmUpdateDecrementing(p) ==
  /\ pc[p] = "c_upd"
  /\ tickets' = UpdateStatus(tickets, req[p].ticket, "confirmed")
  /\ event' = [event EXCEPT !.avail = event.avail - 1]
  /\ IF loc[p].seat = NoSeat
       THEN Return(p, "Confirmed")
       ELSE Goto(p, "c_sget") /\ UNCHANGED <<req, loc, res>>
  /\ UNCHANGED <<queueVars, counter, seats, availIdx, locks, now, nflows, nexpired, ghostVars>>

\* ConfirmTicket: ticketRepo.ConfirmTicket = UpdateStatus(confirmed)
ConfirmUpdate(p) ==
  /\ pc[p] = "c_upd"
  /\ tickets' = UpdateStatus(tickets, req[p].ticket, "confirmed")
  /\ IF loc[p].seat = NoSeat
       THEN Return(p, "Confirmed")
       ELSE Goto(p, "c_sget") /\ UNCHANGED <<req, loc, res>>
  /\ UNCHANGED <<queueVars, event, counter, seats, availIdx, locks, now, nflows, nexpired, ghostVars>>

\* SeatRepository.UpdateStatus: GetByID reads the old status
ConfirmSeatGet(p) ==
  /\ pc[p] = "c_sget"
  /\ loc' = [loc EXCEPT ![p].status = seats[loc[p].seat]]
  /\ Goto(p, "c_sset")
  /\ UNCHANGED <<storeVars, locks, now, req, res, nflows, nexpired, ghostVars>>

\* SeatRepository.UpdateStatus: index update from the old status, SET seat with the new status
SeatUpdateStatus(st, idx, id, old, status) ==
  [seats |-> [st EXCEPT ![id] = status],
   idx |-> IF old = "available" /\ status # "available" THEN idx \ {id}
           ELSE IF old # "available" /\ status = "available" THEN idx \cup {id}
           ELSE idx]

ConfirmSeatSet(p) ==
  /\ pc[p] = "c_sset"
  /\ LET r == SeatUpdateStatus(seats, availIdx, loc[p].seat, loc[p].status, "sold") IN
       /\ seats' = r.seats
       /\ availIdx' = r.idx
  /\ Return(p, "Confirmed")
  /\ UNCHANGED <<queueVars, event, counter, tickets, locks, now, nflows, nexpired, ghostVars>>

(* ---------- TicketingService.CancelTicket ---------- *)
StartCancel(p) ==
  /\ CanStart(p)
  /\ nflows < MaxFlows
  /\ \E t \in 1..Len(tickets) :
       req' = [req EXCEPT ![p] = [NoReq EXCEPT !.op = "cancel", !.ticket = t]]
  /\ loc' = [loc EXCEPT ![p] = NoLoc]
  /\ res' = [res EXCEPT ![p] = "running"]
  /\ Goto(p, "x_get")
  /\ nflows' = nflows + 1
  /\ UNCHANGED <<storeVars, locks, now, nexpired, ghostVars>>

\* a cancel that does not look at the ticket's status
CancelGetUnchecked(p) ==
  /\ pc[p] = "x_get"
  /\ loc' = [loc EXCEPT ![p].seat = tickets[req[p].ticket].seat]
  /\ Goto(p, "x_upd")
  /\ UNCHANGED <<req, res>>
  /\ UNCHANGED <<storeVars, locks, now, nflows, nexpired, ghostVars>>

\* CancelTicket: ticketRepo.GetByID, IsCancelled
CancelGet(p) ==
  /\ pc[p] = "x_get"
  /\ IF tickets[req[p].ticket].status = "cancelled"
       THEN Return(p, "AlreadyCancelled")
       ELSE /\ loc' = [loc EXCEPT ![p].seat = tickets[req[p].ticket].seat,
                                  ![p].status = tickets[req[p].ticket].status]
            /\ Goto(p, "x_upd")
            /\ UNCHANGED <<req, res>>
  /\ UNCHANGED <<storeVars, locks, now, nflows, nexpired, ghostVars>>

\* CancelTicket: ticketRepo.CancelTicket = UpdateStatus(cancelled)
CancelUpdate(p) ==
  /\ pc[p] = "x_upd"
  /\ tickets' = UpdateStatus(tickets, req[p].ticket, "cancelled")
  /\ Goto(p, IF loc[p].seat = NoSeat THEN "x_incr" ELSE "x_seat")
  /\ UNCHANGED <<queueVars, event, counter, seats, availIdx, locks, now, req, loc, res, nflows, nexpired, ghostVars>>

\* CancelTicket: seatRepo.ReleaseSeats([seatID]), its error is only logged
CancelReleaseSeat(p) ==
  /\ pc[p] = "x_seat"
  /\ LET r == ReleaseSeats(seats, availIdx, <<loc[p].seat>>) IN
       /\ seats' = r.seats
       /\ availIdx' = r.idx
  /\ Goto(p, "x_incr")
  /\ UNCHANGED <<queueVars, event, counter, tickets, locks, now, req, loc, res, nflows, nexpired, ghostVars>>

\* CancelTicket: eventRepo.IncrementAvailableTickets, its error is only logged
CancelIncrement(p) ==
  /\ pc[p] = "x_incr"
  /\ LET r == IncrementScript(counter, 1) IN
       /\ counter' = r.counter
       /\ event' = EventAfter(event, r)
  /\ Return(p, "Cancelled")
  /\ UNCHANGED <<queueVars, seats, availIdx, tickets, locks, now, nflows, nexpired, ghostVars>>

(* ---------- QueueService.RefreshSession ---------- *)
StartRefresh(p) ==
  /\ CanStart(p)
  /\ nflows < MaxFlows
  /\ \E sid \in Sessions :
       req' = [req EXCEPT ![p] = [NoReq EXCEPT !.op = "refresh", !.session = sid]]
  /\ loc' = [loc EXCEPT ![p] = NoLoc]
  /\ res' = [res EXCEPT ![p] = "running"]
  /\ Goto(p, "r_get")
  /\ nflows' = nflows + 1
  /\ UNCHANGED <<storeVars, locks, now, nexpired, ghostVars>>

\* RefreshSession: queueRepo.GetBySessionID, entry.IsActive; the new ExpiresAt
\* is set on the loaded copy of the entry only, no store call writes it
RefreshSession(p) ==
  /\ pc[p] = "r_get"
  /\ IF sessions[req[p].session] = NoUser THEN Return(p, "SessionNotFound")
     ELSE IF ~EntryIsActive(entries[sessions[req[p].session]]) THEN Return(p, "SessionNotActive")
     ELSE Return(p, "Refreshed")
  /\ UNCHANGED <<storeVars, locks, now, nflows, nexpired, ghostVars>>

(* ---------- the sweep (periodic pass over expired reservations and sessions) ---------- *)
\* GetExpiredReservations looks at the keys reserved_tickets:{ts} of the last hour, in units of 15 minutes
ScanWindow == 4

\* TicketRepository.GetExpiredReservations: the members of reserved_tickets:{ts},
\* now - 3600 <= ts <= now, whose ticket IsExpired (Create adds every ticket
\* to the key of its expiresAt, nothing removes it)
GetExpiredReservations(ts, t) ==
  {id \in 1..Len(ts) : /\ ts[id].expiresAt # NoExpiry
                       /\ ts[id].expiresAt >= t - ScanWindow /\ ts[id].expiresAt <= t
                       /\ IsExpired(ts[id], t)}

\* QueueRepository.GetExpiredEntries: returns nil and the error "not implemented"
GetExpiredEntries == [ok |-> FALSE, entries |-> {}]

StartSweep(p) ==
  /\ CanStart(p)
  /\ nflows < MaxFlows
  /\ req' = [req EXCEPT ![p] = [NoReq EXCEPT !.op = "sweep"]]
  /\ loc' = [loc EXCEPT ![p] = NoLoc]
  /\ res' = [res EXCEPT ![p] = "running"]
  /\ Goto(p, "s_scan")
  /\ nflows' = nflows + 1
  /\ UNCHANGED <<storeVars, locks, now, nexpired, ghostVars>>

\* the sweep scans the Reserved tickets with expiresAt < now
SweepScan(p) ==
  /\ pc[p] = "s_scan"
  /\ loc' = [loc EXCEPT ![p].todo = {t \in GetExpiredReservations(tickets, now) : tickets[t].status = "reserved"},
                        ![p].at = now]
  /\ Goto(p, "s_next")
  /\ UNCHANGED <<storeVars, locks, now, req, res, nflows, nexpired, ghostVars>>

\* for each scanned ticket the cancel flow is run; then the queue entries are scanned
SweepNext(p) ==
  /\ pc[p] = "s_next"
  /\ IF loc[p].todo = {}
       THEN Goto(p, "s_entries") /\ UNCHANGED <<req, loc>>
       ELSE LET t == CHOOSE x \in loc[p].todo : \A y \in loc[p].todo : x <= y IN
              /\ req' = [req EXCEPT ![p].ticket = t]
              /\ loc' = [loc EXCEPT ![p].todo = loc[p].todo \ {t}]
              /\ Goto(p, "s_get")
  /\ UNCHANGED <<storeVars, locks, now, res, nflows, nexpired, ghostVars>>

\* CancelTicket run by the sweep: ticketRepo.GetByID, IsCancelled
SweepCancelGet(p) ==
  /\ pc[p] = "s_get"
  /\ IF tickets[req[p].ticket].status = "cancelled"
       THEN Goto(p, "s_next") /\ UNCHANGED loc
       ELSE /\ loc' = [loc EXCEPT ![p].seat = tickets[req[p].ticket].seat,
                                  ![p].status = tickets[req[p].ticket].status]
            /\ Goto(p, "s_upd")
  /\ UNCHANGED <<storeVars, locks, now, req, res, nflows, nexpired, ghostVars>>

\* CancelTicket run by the sweep: ticketRepo.CancelTicket = UpdateStatus(cancelled)
SweepCancelUpdate(p) ==
  /\ pc[p] = "s_upd"
  /\ tickets' = UpdateStatus(tickets, req[p].ticket, "cancelled")
  /\ Goto(p, IF loc[p].seat = NoSeat THEN "s_incr" ELSE "s_seat")
  /\ UNCHANGED <<queueVars, event, counter, seats, availIdx, locks, now, req, loc, res, nflows, nexpired, ghostVars>>

\* CancelTicket run by the sweep: seatRepo.ReleaseSeats([seatID]), its error is only logged
SweepReleaseSeat(p) ==
  /\ pc[p] = "s_seat"
  /\ LET r == ReleaseSeats(seats, availIdx, <<loc[p].seat>>) IN
       /\ seats' = r.seats
       /\ availIdx' = r.idx
  /\ Goto(p, "s_incr")
  /\ UNCHANGED <<queueVars, event, counter, tickets, locks, now, req, loc, res, nflows, nexpired, ghostVars>>

\* CancelTicket run by the sweep: eventRepo.IncrementAvailableTickets, its error is only logged
SweepIncrement(p) ==
  /\ pc[p] = "s_incr"
  /\ LET r == IncrementScript(counter, 1) IN
       /\ counter' = r.counter
       /\ event' = EventAfter(event, r)
  /\ Goto(p, "s_next")
  /\ UNCHANGED <<queueVars, seats, availIdx, tickets, locks, now, req, loc, res, nflows, nexpired, ghostVars>>

\* the sweep scans the Active entries with expiresAt < now: GetExpiredEntries
\* fails, so no entry is transitioned and processNext is not invoked
SweepEntries(p) ==
  /\ pc[p] = "s_entries"
  /\ Return(p, IF GetExpiredEntries.ok THEN "Swept" ELSE "NotImplemented")
  /\ UNCHANGED <<storeVars, locks, now, nflows, nexpired, ghostVars>>

\* time passes
Tick ==
  /\ now < MaxTime
  /\ now' = now + 1
  /\ UNCHANGED <<storeVars, locks, procVars, nflows, nexpired, ghostVars>>

(* ---------- initial state ---------- *)
\* EventController.CreateEvent + EventRepository.Create: the record is written,
\* the counter key event:{id}:available_tickets is not.
InitStore ==
  /\ queue = <<>>
  /\ entries = [u \in Users |-> NoEntry]
  /\ sessions = [s \in Sessions |-> NoUser]
  /\ counter = NoKey
  /\ seats = [s \in Seats |-> "available"]
  /\ availIdx = Seats
  /\ tickets = <<>>
  /\ locks = {}
  /\ now = 0

InitProcs ==
  /\ pc = [p \in Procs |-> "idle"]
  /\ req = [p \in Procs |-> NoReq]
  /\ loc = [p \in Procs |-> NoLoc]
  /\ res = [p \in Procs |-> "none"]
  /\ nflows = 0
  /\ nexpired = 0
  /\ acked = {}
  /\ arrived = {}
  /\ everActive = {}
  /\ joinedAfter = [u \in Users |-> {}]

\* EventController.CreateEvent: status active, AvailableTickets = TotalTickets
NewEvent(seated, total) ==
  [status |-> "active", seated |-> seated, total |-> total, avail |-> total, endTime |-> MaxTime + 1]

InitQueue ==
  /\ InitStore
  /\ InitProcs
  /\ event = NewEvent(TRUE, Cardinality(Seats))

\* the queue after u1, u2, u3 joined in this order and one processNext ran
\* (reached under SpecQueue, see AdmittedReachable): the flows of Spec start here
Admitted ==
  /\ queue = <<"u2", "u3">>
  /\ entries = [u \in Users |->
       CASE u = "u1" -> [status |-> "active", position |-> 1, session |-> "k1", expiresAt |-> ActiveTTL]
         [] u = "u2" -> [status |-> "active", position |-> 2, session |-> "k2", expiresAt |-> ActiveTTL]
         [] OTHER -> [status |-> "waiting", position |-> 3, session |-> "k3", expiresAt |-> NoExpiry]]
  /\ sessions = [s \in Sessions |->
       CASE s = "k1" -> "u1" [] s = "k2" -> "u2" [] s = "k3" -> "u3" [] OTHER -> NoUser]
  /\ acked = Users
  /\ arrived = Users
  /\ everActive = {"u1", "u2"}
  /\ joinedAfter = [u \in Users |-> CASE u = "u1" -> {} [] u = "u2" -> {"u1"} [] OTHER -> {"u1", "u2"}]

Init ==
  /\ Admitted
  /\ \E seated \in BOOLEAN : \E total \in 1..MaxTotal :
       /\ seated => total = Cardinality(Seats)
       /\ event = NewEvent(seated, total)
  /\ counter = NoKey
  /\ seats = [s \in Seats |-> "available"]
  /\ availIdx = Seats
  /\ tickets = <<>>
  /\ locks = {}
  /\ now = 0
  /\ pc = [p \in Procs |-> "idle"]
  /\ req = [p \in Procs |-> NoReq]
  /\ loc = [p \in Procs |-> NoLoc]
  /\ res = [p \in Procs |-> "none"]
  /\ nflows = 0
  /\ nexpired = 0

PurchaseSteps ==
  \/ \E p \in Procs : StartPurchase(p)
  \/ \E p \in Procs : PurchaseSession(p)
  \/ \E p \in Procs : PurchaseEvent(p)
  \/ \E p \in Procs : PurchaseLock(p)
  \/ \E p \in Procs : PurchaseSeat(p)
  \/ \E p \in Procs : PurchaseReserve(p)
  \/ \E p \in Procs : PurchaseCreate(p)
  \/ \E p \in Procs : PurchaseDecrement(p)
  \/ \E p \in Procs : PurchaseStanding(p)
  \/ \E p \in Procs : PurchaseStandingDecrement(p)
  \/ \E p \in Procs : PurchaseRelease(p)

ConfirmCancelSteps ==
  \/ \E p \in Procs : StartConfirm(p)
  \/ \E p \in Procs : ConfirmGet(p)
  \/ \E p \in Procs : ConfirmUpdate(p)
  \/ \E p \in Procs : ConfirmSeatGet(p)
  \/ \E p \in Procs : ConfirmSeatSet(p)
  \/ \E p \in Procs : StartCancel(p)
  \/ \E p \in Procs : CancelGet(p)
  \/ \E p \in Procs : CancelUpdate(p)
  \/ \E p \in Procs : CancelReleaseSeat(p)
  \/ \E p \in Procs : CancelIncrement(p)

Next == PurchaseSteps \/ ConfirmCancelSteps \/ Tick \/ LockExpire

\* purchase, confirm and cancel flows of admitted and unadmitted users
Spec == Init /\ [][Next]_vars

NextPurchase == PurchaseSteps \/ Tick \/ LockExpire

\* the behaviours of Spec in which clients only purchase
SpecPurchase == Init /\ [][NextPurchase]_vars

FaultSteps ==
  \/ \E p \in Procs : PurchaseCreateFails(p)
  \/ \E p \in Procs : PurchaseUndo(p)
  \/ \E p \in Procs : PurchaseUndoFails(p)

NextFaulty == NextPurchase \/ FaultSteps

\* purchases over a store whose calls can fail while a ticket is being written
SpecFaulty == Init /\ [][NextFaulty]_vars

SweepSteps ==
  \/ \E p \in Procs : StartSweep(p)
  \/ \E p \in Procs : SweepScan(p)
  \/ \E p \in Procs : SweepNext(p)
  \/ \E p \in Procs : SweepCancelGet(p)
  \/ \E p \in Procs : SweepCancelUpdate(p)
  \/ \E p \in Procs : SweepReleaseSeat(p)
  \/ \E p \in Procs : SweepIncrement(p)
  \/ \E p \in Procs : SweepEntries(p)

NextSweep == PurchaseSteps \/ SweepSteps \/ Tick

\* purchases and runs of the sweep
SpecSweep == Init /\ [][NextSweep]_vars

RefreshSteps ==
  \/ \E p \in Procs : StartRefresh(p)
  \/ \E p \in Procs : RefreshSession(p)

NextRefresh == PurchaseSteps \/ RefreshSteps \/ Tick

\* purchases and session refreshes
SpecRefresh == Init /\ [][NextRefresh]_vars

(* ---------- calls of the seat repository with lists of seats ---------- *)
SeatIds == {"A1", "A2"}
\* an id no seat was created with
MissingSeat == "A9"
SeatStatuses == {"available", "reserved", "sold"}
SeatLists == UNION {[1..n -> SeatIds \cup {MissingSeat}] : n \in 1..MaxSeatList}

\* one call: the script runs, the seats and the index are what it left, the
\* call returns nil or the error of the script
SeatCall(p, op, ids, r, err) ==
  /\ CanStart(p)
  /\ nflows < MaxFlows
  /\ seats' = r.seats
  /\ availIdx' = r.idx
  /\ req' = [req EXCEPT ![p] = [NoReq EXCEPT !.op = op, !.ids = ids]]
  /\ res' = [res EXCEPT ![p] = IF r.ok THEN "ok" ELSE err]
  /\ nflows' = nflows + 1
  /\ UNCHANGED <<queueVars, event, counter, tickets, locks, now, pc, loc, nexpired, ghostVars>>

\* the repository of part_003 (rueidis)
ReserveSeatsCall(p) ==
  \E ids \in SeatLists : SeatCall(p, "reserveSeats", ids, ReserveSeats(seats, availIdx, ids), "SeatUnavailable")

ReleaseSeatsCall(p) ==
  \E ids \in SeatLists : SeatCall(p, "releaseSeats", ids, ReleaseSeats(seats, availIdx, ids), "SeatNotReserved")

\* the repository of pkg/repository/redis/seat.go (go-redis)
ReserveSeatsGoRedisCall(p) ==
  \E ids \in SeatLists : SeatCall(p, "reserveSeats", ids, ReserveSeatsGoRedis(seats, availIdx, ids), "SeatUnavailable")

ReleaseSeatsGoRedisCall(p) ==
  \E ids \in SeatLists : SeatCall(p, "releaseSeats", ids, ReleaseSeatsGoRedis(seats, availIdx, ids), "SeatNotReserved")

\* the seats of an event in any statuses, the available index in step with them
InitSeats ==
  /\ InitProcs
  /\ queue = <<>>
  /\ entries = [u \in Users |-> NoEntry]
  /\ sessions = [s \in Sessions |-> NoUser]
  /\ event = NewEvent(TRUE, Cardinality(SeatIds))
  /\ counter = NoKey
  /\ seats \in [SeatIds -> SeatStatuses]
  /\ availIdx = {s \in SeatIds : seats[s] = "available"}
  /\ tickets = <<>>
  /\ locks = {}
  /\ now = 0

NextSeats ==
  \/ \E p \in Procs : ReserveSeatsCall(p)
  \/ \E p \in Procs : ReleaseSeatsCall(p)
  \/ \E p \in Procs : ReserveSeatsGoRedisCall(p)
  \/ \E p \in Procs : ReleaseSeatsGoRedisCall(p)

\* reserveSeats and releaseSeats applied to lists of seats
SpecSeats == InitSeats /\ [][NextSeats]_vars

QueueSteps ==
  \/ \E p \in Procs : StartJoin(p)
  \/ \E p \in Procs : JoinEvent(p)
  \/ \E p \in Procs : JoinLock(p)
  \/ \E p \in Procs : JoinCheck(p)
  \/ \E p \in Procs : JoinLLen(p)
  \/ \E p \in Procs : JoinRPush(p)
  \/ \E p \in Procs : JoinSet(p)
  \/ \E p \in Procs : JoinHSet(p)
  \/ \E p \in Procs : JoinRelease(p)
  \/ \E p \in Procs : StartProcess(p)
  \/ \E p \in Procs : ProcessLock(p)
  \/ \E p \in Procs : ProcessLPop(p)
  \/ \E p \in Procs : ProcessLIndex(p)
  \/ \E p \in Procs : ProcessGet(p)
  \/ \E p \in Procs : ProcessSet(p)
  \/ \E p \in Procs : ProcessRelease(p)

NextQueue == QueueSteps \/ LockExpire

\* joins and processNext calls, lock keys may be evicted by their TTL
SpecQueue == InitQueue /\ [][NextQueue]_vars

\* the behaviours of SpecQueue in which no lock key is evicted
SpecQueueHeld == InitQueue /\ [][QueueSteps]_vars

\* EventStatus of lib/domain/event.go
EventStatuses == {"active", "inactive", "sold_out"}

\* EventController.UpdateEvent with a status: GetEvent, set Status, eventRepo.Update
UpdateEvent ==
  /\ \E st \in EventStatuses :
       /\ st # event.status
       /\ event' = [event EXCEPT !.status = st]
  /\ UNCHANGED <<queueVars, counter, seats, availIdx, tickets, locks, now, procVars, nflows,
                 nexpired, ghostVars>>

\* an event that ends at MaxTime
InitJoin ==
  /\ InitStore
  /\ InitProcs
  /\ event = [NewEvent(TRUE, Cardinality(Seats)) EXCEPT !.endTime = MaxTime]

NextJoin == QueueSteps \/ Tick \/ UpdateEvent

\* joins and processNext calls while time passes and the organiser changes
\* the status of the event
SpecJoin == InitJoin /\ [][NextJoin]_vars

\* an event of either kind, nobody has joined yet
InitLocks ==
  /\ InitStore
  /\ InitProcs
  /\ \E seated \in BOOLEAN : event = NewEvent(seated, Cardinality(Seats))

NextLocks == QueueSteps \/ PurchaseSteps \/ LockExpire

\* every flow that takes a lock: joins, processNext calls and purchases
SpecLocks == InitLocks /\ [][NextLocks]_vars

(* ---------- admission-queue properties ---------- *)
ActiveUsers == {u \in Users : EntryIsActive(entries[u])}

\* the starting point of Spec is a state of the queue the program reaches
AdmittedReachable == ~Admitted

HasEntry(u) == entries[u].status # "absent"

\* C6: queue positions are strictly increasing in join order and never reused:
\* a user whose join returned before the join that created b's entry began
\* holds a smaller position than b (also after processNext popped entries)
C6_PositionsIncrease ==
  \A a, b \in Users :
    (HasEntry(b) /\ a \in joinedAfter[b]) => entries[a].position < entries[b].position

\* C7: FIFO admission: when b is (or has been) Active, every user whose join
\* was acknowledged before b's join began has been Active too
C7_FifoAdmission ==
  \A a, b \in Users :
    (b \in everActive /\ a \in joinedAfter[b]) => a \in everActive

\* C8: at most one entry of the event is Active, after any joins and processNext calls
C8_SingleActive == Cardinality(ActiveUsers) <= 1

NoDuplicateInQueue ==
  \A i, j \in 1..Len(queue) : queue[i] = queue[j] => i = j

\* a worker on the path of Join that found an existing entry
ReturnsExisting(p) ==
  \/ pc[p] = "j_check" /\ HasEntry(req[p].user)
  \/ pc[p] = "j_release" /\ loc[p].err = "existing"

\* C9: a join by a user who already has an entry returns that entry and leaves
\* the queue list and every entry record unchanged, so the queue list never
\* holds the same user twice
C9_IdempotentJoin ==
  /\ [](NoDuplicateInQueue)
  /\ [][\A p \in Procs : (ReturnsExisting(p) /\ pc'[p] # pc[p]) =>
          /\ UNCHANGED queueVars
          /\ pc'[p] = "idle" => res'[p] = "existing"]_vars

(* ---------- inventory properties ---------- *)
AllIdle == \A p \in Procs : pc[p] = "idle"
TicketIds == 1..Len(tickets)
Confirmed == {t \in TicketIds : tickets[t].status = "confirmed"}
Reserved == {t \in TicketIds : tickets[t].status = "reserved"}
Cancelled == {t \in TicketIds : tickets[t].status = "cancelled"}
LiveOn(s) == {t \in TicketIds : tickets[t].seat = s /\ tickets[t].status # "cancelled"}

\* C1: no overselling: at most totalTickets Confirmed tickets, and at most
\* totalTickets Reserved plus Confirmed tickets, in every reachable state
C1_NoOverselling ==
  /\ Cardinality(Confirmed) <= event.total
  /\ Cardinality(Reserved) + Cardinality(Confirmed) <= event.total

\* C2: seat exclusivity: when no flow is in progress, every seat is referenced
\* by at most one non-cancelled ticket and is Available exactly when none references it
C2_SeatExclusivity ==
  AllIdle => \A s \in Seats :
    /\ Cardinality(LiveOn(s)) <= 1
    /\ (seats[s] = "available") <=> (LiveOn(s) = {})

\* results only a purchase that asked for a seat and reached it under the lock returns
SeatPurchaseResults == {"Reserved", "SeatUnavailable"}

\* C3: admitted clients racing for one Available seat: the seat never gets a
\* second ticket, and once the racers have returned exactly one Reserved
\* ticket exists for it (the losers failed without creating a ticket)
C3_OneWinner ==
  event.seated => \A s \in Seats :
    /\ Cardinality(LiveOn(s)) <= 1
    /\ (AllIdle /\ \E p \in Procs : res[p] \in SeatPurchaseResults) => Cardinality(LiveOn(s)) = 1

\* two purchases raced and both returned: one won the seat, the other lost
C3_Witness ==
  /\ event.seated /\ AllIdle /\ nflows = 2
  /\ res["w1"] = "SeatUnavailable" /\ res["w2"] = "Reserved"

\* results of a standing purchase that passed the session and event checks
StandingResults == {"Reserved", "NotFound", "InsufficientInventory", "LockBusy"}
BothPurchased == AllIdle /\ nflows = 2 /\ \A p \in Procs : res[p] \in StandingResults

\* C4: the counter is never negative, and with totalTickets = 1 two
\* concurrent standing purchases end with one Reserved ticket and one failure
C4_CounterNeverNegative ==
  /\ counter = NoKey \/ counter >= 0
  /\ (~event.seated /\ event.total = 1 /\ BothPurchased) =>
        /\ Cardinality(Reserved) = 1
        /\ \E p, q \in Procs : res[p] = "Reserved" /\ res[q] # "Reserved"

\* C5: N admitted clients racing for M < N standing tickets: once all have
\* returned exactly M Reserved tickets exist and the counter reads 0
C5_ExactlyMSucceed ==
  (~event.seated /\ BothPurchased /\ event.total < Cardinality(Procs)) =>
     /\ Cardinality(Reserved) = event.total
     /\ counter = 0

\* the request at the session check names no entry, or one that is not Active, expired or someone else's
NotAdmitted(p) ==
  LET u == sessions[req[p].session] IN
    \/ u = NoUser
    \/ entries[u].status # "active"
    \/ entries[u].expiresAt # NoExpiry /\ now > entries[u].expiresAt
    \/ req[p].ev # "E"
    \/ u # req[p].user

\* C10: a purchase whose session has no entry, or whose entry is not Active,
\* is expired or does not match the request fails with SessionInvalid and
\* leaves the counter, the event, every seat, every ticket and every lock unchanged
C10_GatedByAdmission ==
  [][\A p \in Procs :
       (pc[p] = "p_session" /\ pc'[p] # pc[p] /\ NotAdmitted(p)) =>
       /\ pc'[p] = "idle" /\ res'[p] = "SessionInvalid"
       /\ UNCHANGED <<invVars, locks, queueVars>>]_vars

\* a purchase whose Active entry has outlived expiresAt is at its session check
C10_Witness ==
  \E p \in Procs :
    /\ pc[p] = "p_session"
    /\ sessions[req[p].session] = req[p].user
    /\ req[p].ev = "E"
    /\ EntryIsActive(entries[req[p].user])
    /\ IsExpired(entries[req[p].user], now)

\* C11: a successful purchase (seated or standing) leaves the event's
\* availableTickets one below the value the purchase read before it began
C11_PurchaseDecrements ==
  \A p \in Procs :
    (pc[p] = "p_release" /\ loc[p].err = "none") => event.avail = loc[p].avail - 1

\* C12: on a freshly created standing event the first purchase by the Active
\* user succeeds with a Reserved ticket and leaves availableTickets = n - 1
C12_CounterUsable ==
  (~event.seated /\ nflows = 1 /\ AllIdle /\ res["w1"] \in StandingResults) =>
     /\ res["w1"] = "Reserved"
     /\ Cardinality(Reserved) = 1
     /\ counter = event.total - 1
     /\ event.avail = event.total - 1

\* C13: when no flow is in progress availableTickets equals totalTickets minus
\* the number of Reserved and Confirmed tickets, and lies in 0..totalTickets
C13_CounterAccounting ==
  AllIdle =>
     /\ event.avail = event.total - (Cardinality(Reserved) + Cardinality(Confirmed))
     /\ event.avail >= 0 /\ event.avail <= event.total

\* C14: confirm of a ticket that is not Reserved fails with TicketNotReserved,
\* confirm of a Reserved ticket past its expiresAt fails with TicketExpired;
\* both leave the tickets, the seats, the event and the counter unchanged
C14_ConfirmPreconditions ==
  [][\A p \in Procs :
       (pc[p] = "c_get" /\ pc'[p] # pc[p]) =>
         LET t == tickets[req[p].ticket] IN
           /\ t.status # "reserved" =>
                pc'[p] = "idle" /\ res'[p] = "TicketNotReserved" /\ UNCHANGED invVars
           /\ (t.status = "reserved" /\ t.expiresAt # NoExpiry /\ now > t.expiresAt) =>
                pc'[p] = "idle" /\ res'[p] = "TicketExpired" /\ UNCHANGED invVars]_vars

\* a confirm has loaded a Reserved ticket whose expiresAt has passed
C14_Witness ==
  \E p \in Procs :
    /\ pc[p] = "c_get"
    /\ tickets[req[p].ticket].status = "reserved"
    /\ now > tickets[req[p].ticket].expiresAt

\* C15: after a purchase and a successful confirm of its ticket, the ticket is
\* Confirmed with expiresAt absent and, when seated, its seat is Sold
C15_ConfirmEffect ==
  (AllIdle /\ nflows = 2 /\ Len(tickets) = 1 /\ \E p \in Procs : res[p] = "Confirmed") =>
     /\ tickets[1].status = "confirmed"
     /\ tickets[1].expiresAt = NoExpiry
     /\ tickets[1].seat # NoSeat => seats[tickets[1].seat] = "sold"

\* the steps of a confirm flow
ConfirmPcs == {"c_get", "c_upd", "c_sget", "c_sset"}

\* C16: no step of a confirm, successful or failing, changes the counter or
\* the event's availableTickets
C16_ConfirmKeepsCounter ==
  [][\A p \in Procs :
       (pc[p] \in ConfirmPcs /\ pc'[p] # pc[p]) => counter' = counter /\ event' = event]_vars

\* a confirm has succeeded
C16_Witness == \E p \in Procs : pc[p] = "idle" /\ res[p] = "Confirmed"

\* C17: a cancel of a ticket that an earlier cancel left Cancelled fails with
\* AlreadyCancelled and leaves the counter, the event, the seats and the tickets unchanged
C17_CancelTwice ==
  [][\A p \in Procs :
       (pc[p] = "x_get" /\ pc'[p] # pc[p] /\ tickets[req[p].ticket].status = "cancelled") =>
         pc'[p] = "idle" /\ res'[p] = "AlreadyCancelled" /\ UNCHANGED invVars]_vars

\* a second cancel has loaded the ticket the first cancel finished with
C17_Witness ==
  \E p, q \in Procs :
    /\ pc[p] = "x_get" /\ tickets[req[p].ticket].status = "cancelled"
    /\ pc[q] = "idle" /\ res[q] = "Cancelled"

\* the flows so far ran one after the other: the second worker only serves
\* a request that arrives while the first is busy
Serial == res["w2"] = "none"

\* C18: in a run of flows one after the other, the cancel of a seated ticket
\* it loaded as Reserved ends with the ticket Cancelled, the seat Available
\* (open to a later purchase) and availableTickets one higher than before
C18_CancelReserved ==
  [][\A p \in Procs :
       (pc[p] = "x_incr" /\ pc'[p] # pc[p] /\ Serial /\ loc[p].seat # NoSeat /\ loc[p].status = "reserved") =>
         /\ tickets'[req[p].ticket].status = "cancelled"
         /\ seats'[loc[p].seat] = "available"
         /\ event'.avail = event.avail + 1]_vars

\* C19: in a run of flows one after the other, the cancel of a seated ticket
\* it loaded as Confirmed (seat Sold) ends with the seat Available and
\* availableTickets one higher, so no seat stays Sold without a live ticket
C19_CancelConfirmed ==
  [][\A p \in Procs :
       (pc[p] = "x_incr" /\ pc'[p] # pc[p] /\ Serial /\ loc[p].seat # NoSeat /\ loc[p].status = "confirmed") =>
         /\ seats'[loc[p].seat] = "available"
         /\ event'.avail = event.avail + 1]_vars

\* C20: once the purchases have returned, failed ones included, every seat is
\* Reserved with a Reserved ticket pointing at it or Available with no ticket
\* pointing at it; never Reserved with no ticket
C20_NoOrphanReservation ==
  AllIdle => \A s \in Seats :
    \/ seats[s] = "reserved" /\ \E t \in LiveOn(s) : tickets[t].status = "reserved"
    \/ seats[s] = "available" /\ LiveOn(s) = {}

\* C21: a run of the sweep ends with no Reserved ticket and no Active queue
\* entry whose expiresAt lies before the time of its scan, and in a run of
\* flows one after the other each ticket it cancels has its seat released and
\* availableTickets raised by one
C21_SweepConverges ==
  /\ [][\A p \in Procs :
          (pc[p] = "s_entries" /\ pc'[p] = "idle") =>
            /\ \A t \in 1..Len(tickets') :
                 ~(/\ tickets'[t].status = "reserved"
                   /\ tickets'[t].expiresAt # NoExpiry /\ tickets'[t].expiresAt < loc[p].at)
            /\ \A u \in Users :
                 ~(/\ entries'[u].status = "active"
                   /\ entries'[u].expiresAt # NoExpiry /\ entries'[u].expiresAt < loc[p].at)]_vars
  /\ [][\A p \in Procs :
          (pc[p] = "s_incr" /\ pc'[p] # pc[p] /\ Serial) =>
            /\ loc[p].seat # NoSeat => seats'[loc[p].seat] = "available"
            /\ event'.avail = event.avail + 1]_vars

\* C22: a successful refresh of an Active, unexpired entry leaves the stored
\* entry with expiresAt = now + ActiveTTL, so the session check of a purchase
\* passes at every time up to the refreshed expiresAt
C22_RefreshExtends ==
  [][\A p \in Procs : \A sid \in Sessions : \A u \in Users :
       (/\ pc[p] = "r_get" /\ pc'[p] = "idle" /\ res'[p] = "Refreshed"
        /\ req[p].session = sid /\ sessions[sid] = u
        /\ entries[u].status = "active" /\ now <= entries[u].expiresAt) =>
         /\ entries'[u].expiresAt = now + ActiveTTL
         /\ \A t \in now..(now + ActiveTTL) : SessionValid(sid, "E", u, t)']_vars

\* C23: refresh of a session whose entry is not Active, or is Active but past
\* its expiresAt, fails with SessionNotActive and changes nothing in the store
C23_RefreshRejects ==
  [][\A p \in Procs :
       (pc[p] = "r_get" /\ pc'[p] # pc[p] /\ sessions[req[p].session] # NoUser) =>
         LET e == entries[sessions[req[p].session]] IN
           (e.status # "active" \/ (e.expiresAt # NoExpiry /\ now > e.expiresAt)) =>
              pc'[p] = "idle" /\ res'[p] = "SessionNotActive" /\ UNCHANGED storeVars]_vars

\* a processNext that has popped the head and not yet written the new head's entry
ProcessMid == {"q_lindex", "q_get", "q_set"}

\* C24: two simultaneous processNext calls never interleave their pop and
\* activate steps (at most one is between its pop and its entry write), and
\* the call that finds the lock taken returns LockBusy without touching the queue
C24_ProcessExclusive ==
  /\ [](Cardinality({p \in Procs : pc[p] \in ProcessMid}) <= 1)
  /\ [][\A p \in Procs :
          (pc[p] = "q_lock" /\ pc'[p] = "idle") => res'[p] = "LockBusy" /\ UNCHANGED queueVars]_vars

\* a join that has read the list length and not yet bound its session
JoinMid == {"j_rpush", "j_set", "j_hset"}

\* C25: join and promoteNext on one event are totally ordered: no join is
\* between its length read and its session bind while a promoteNext is
\* between its pop and its entry write
C25_JoinProcessOrdered ==
  ~(\E p, q \in Procs : pc[p] \in JoinMid /\ pc[q] \in ProcessMid)

\* the users promoteNext has popped: they have an entry and are not in the list
Popped == {u \in Users : HasEntry(u) /\ \A i \in 1..Len(queue) : queue[i] # u}

\* C26: in a run of joins and promoteNext calls one after the other, the
\* entry of every popped user is no longer Active and its session does not
\* pass the purchase session check
C26_PoppedNotActive ==
  (AllIdle /\ Serial) =>
     \A u \in Popped :
       /\ entries[u].status # "active"
       /\ ~SessionValid(entries[u].session, "E", u, now)

\* C27: reserveSeats is all-or-nothing: when a listed seat is missing or not
\* Available the call fails with SeatUnavailable and no seat status and no
\* membership of the available index changes
C27_ReserveAllOrNothing ==
  [][\A p \in Procs :
       (nflows' = nflows + 1 /\ req'[p].op = "reserveSeats") =>
         LET ids == req'[p].ids IN
           (\E i \in 1..Len(ids) : ids[i] \notin DOMAIN seats \/ seats[ids[i]] # "available") =>
              res'[p] = "SeatUnavailable" /\ seats' = seats /\ availIdx' = availIdx]_vars

\* C28: releaseSeats fails with SeatNotReserved and changes no seat and no
\* index when a listed seat is missing, Available or Sold; otherwise every
\* listed seat becomes Available and is in the available index
C28_ReleaseAllOrNothing ==
  [][\A p \in Procs :
       (nflows' = nflows + 1 /\ req'[p].op = "releaseSeats") =>
         LET ids == req'[p].ids IN
           IF \E i \in 1..Len(ids) : ids[i] \notin DOMAIN seats \/ seats[ids[i]] # "reserved"
             THEN res'[p] = "SeatNotReserved" /\ seats' = seats /\ availIdx' = availIdx
             ELSE \A i \in 1..Len(ids) : seats'[ids[i]] = "available" /\ ids[i] \in availIdx']_vars

\* C29: a seat enters status Sold only from status Reserved: no step, also of
\* a confirm racing with a cancel or with another purchase, turns an
\* Available seat into a Sold one
C29_SoldOnlyFromReserved ==
  [][\A s \in Seats : (seats'[s] = "sold" /\ seats[s] # "sold") => seats[s] = "reserved"]_vars

\* C30: in a seated purchase the counter decrement that follows the seat
\* reservation and the ticket either takes one unit off the counter or fails
\* the purchase (whose seat is then released): a seated purchase never goes
\* on to return Reserved with the counter left undecremented
C30_ReservedUnitCounted ==
  [][\A p \in Procs :
       (pc[p] = "p_decr" /\ pc'[p] # pc[p]) =>
         \/ counter # NoKey /\ counter' = counter - 1
         \/ loc'[p].err # "none"]_vars

\* the last step of a flow that acquired a lock: the deferred Release
ReleasePcs == {"p_release", "j_release", "q_release"}

\* C31: a holder whose lock key was evicted by its TTL and acquired again by
\* another flow does not delete that flow's lock when it releases
C31_ReleaseOwnLockOnly ==
  [][\A p, q \in Procs :
       (/\ p # q /\ pc[p] \in ReleasePcs /\ pc'[p] = "idle" /\ loc[p].evicted
        /\ pc[q] # "idle" /\ loc[q].held = loc[p].held /\ ~loc[q].evicted
        /\ loc[q].held \in locks) =>
         loc[q].held \in locks']_vars

\* C32: of the cancels of one ticket, concurrent ones included, exactly one
\* succeeds: no cancel writes Cancelled over a ticket that is already Cancelled
\* and goes on to return its unit to the counter a second time
C32_CancelOnce ==
  [][\A p \in Procs :
       (pc[p] = "x_upd" /\ pc'[p] # pc[p]) => tickets[req[p].ticket].status # "cancelled"]_vars

\* the key a flow of this kind takes
OwnKey(p) ==
  CASE req[p].op = "join" -> JoinLockKey(req[p].ev)
    [] req[p].op = "process" -> ProcessLockKey(req[p].ev)
    [] req[p].op = "purchase" -> PurchaseLockKey(req[p].ev, req[p].seat)
    [] OTHER -> NoLock

\* C33: a flow takes a lock only while it holds none and only the key of its
\* own kind, a flow that took a lock leaves the key absent when it returns
\* (with a result or with an error), so every key in the store belongs to a
\* flow that is still running and a flow that finds a key taken returns
\* LockBusy instead of waiting
C33_LocksDoNotOverlap ==
  /\ [](\A k \in locks : \E p \in Procs : pc[p] # "idle" /\ loc[p].held = k)
  /\ [][\A p \in Procs :
          /\ (pc'[p] # "idle" /\ loc'[p].held # loc[p].held /\ loc'[p].held # NoLock) =>
               loc[p].held = NoLock /\ loc'[p].held = OwnKey(p)
          /\ (pc[p] # "idle" /\ pc'[p] = "idle" /\ loc[p].held # NoLock) =>
               loc[p].held \notin locks'
          /\ (pc[p] \in {"j_lock", "q_lock", "p_lock"} /\ pc'[p] # pc[p] /\ loc'[p].held = NoLock) =>
               pc'[p] = "idle" /\ res'[p] = "LockBusy"]_vars

\* a purchase has returned its ticket and a processNext has returned the
\* error of an empty queue, both after taking a lock, and no key is left
C33_Witness ==
  /\ AllIdle /\ locks = {}
  /\ res["w1"] = "Reserved" /\ res["w2"] = "QueueEmpty"

\* C34: a processNext whose LPOP finds the queue list empty goes on to return
\* QueueEmpty, and neither its pop nor its return changes the queue list or
\* an entry record
C34_EmptyQueue ==
  [][\A p \in Procs :
       /\ (pc[p] = "q_lpop" /\ pc'[p] # pc[p] /\ queue = <<>>) =>
            /\ pc'[p] = "q_release" /\ loc'[p].err = "QueueEmpty"
            /\ queue' = queue /\ entries' = entries
       /\ (pc[p] = "q_release" /\ pc'[p] # pc[p] /\ loc[p].err = "QueueEmpty") =>
            /\ pc'[p] = "idle" /\ res'[p] = "QueueEmpty"
            /\ queue' = queue /\ entries' = entries]_vars

\* a processNext has returned QueueEmpty on a queue nobody has joined
C34_Witness ==
  /\ \E p \in Procs : pc[p] = "idle" /\ res[p] = "QueueEmpty"
  /\ queue = <<>> /\ \A u \in Users : ~HasEntry(u)

\* C35: a join that loads an event which is not Active, is sold out
\* (availableTickets <= 0) or has reached its end time returns EventUnavailable
\* at once: it holds no lock, takes none, and leaves the queue list, the
\* entries and the sessions unchanged
C35_JoinUnavailable ==
  [][\A p \in Procs :
       (/\ pc[p] = "j_event" /\ pc'[p] # pc[p]
        /\ (event.status # "active" \/ event.avail <= 0 \/ ~(now < event.endTime))) =>
         /\ pc'[p] = "idle" /\ res'[p] = "EventUnavailable"
         /\ loc[p].held = NoLock /\ locks' = locks
         /\ UNCHANGED queueVars]_vars

\* a join has been turned away from an Active event with tickets left whose
\* end time has passed
C35_Witness ==
  /\ \E p \in Procs : pc[p] = "idle" /\ res[p] = "EventUnavailable"
  /\ event.status = "active" /\ event.avail > 0 /\ now >= event.endTime

\* C36: a Cancelled ticket stays Cancelled, and once the confirms and cancels
\* of a ticket have returned, concurrent ones included, a Confirmed ticket
\* with a seat has that seat Sold: never a Confirmed ticket whose seat was released
C36_TicketStateMachine ==
  /\ [](AllIdle => \A t \in TicketIds :
          (tickets[t].status = "confirmed" /\ tickets[t].seat # NoSeat) =>
            seats[tickets[t].seat] = "sold")
  /\ [][\A t \in TicketIds :
          tickets[t].status = "cancelled" => tickets'[t].status = "cancelled"]_vars

\* C37: every user a processNext removes from the queue list has an entry
\* that is Active at the pop; no user is popped while Waiting
C37_NoSkip ==
  [][\A p \in Procs :
       (pc[p] = "q_lpop" /\ pc'[p] # pc[p] /\ queue # <<>>) =>
         EntryIsActive(entries[Head(queue)])]_vars

\* C38: in a run of calls one after the other, an ActivateNext that has
\* removed the head does not end with an error: a call that fails leaves the
\* queue list as it found it
C38_PromoteAtomicOnError ==
  [][\A p \in Procs :
       (Serial /\ pc[p] \in ProcessMid /\ pc'[p] # pc[p]) => loc'[p].err = "none"]_vars

\* C39: once the purchases and cancels have returned and at least one of them
\* has called decrementAvailable or incrementAvailable (a purchase returned its
\* ticket, a cancel succeeded), the availableTickets of the event record
\* equals the value of the counter key
C39_RecordMirrorsCounter ==
  (AllIdle /\ \E p \in Procs : res[p] \in {"Reserved", "Cancelled"}) => event.avail = counter

====
